---- MODULE Spec2Model ----
(***************************************************************************)
(* Roll-call collection pipeline of data-job/fetch_votes.py (save_json,    *)
(* collect_house, collect_senate, build_index, main) and the retrying      *)
(* fetch helper http_json of data-job/fetch_members.py.                    *)
(*                                                                         *)
(* The remote sources are environment state: hsource gives the lower       *)
(* chamber's answer for every roll number, ssource the upper chamber's     *)
(* menu and its answer for every detail document.  A source is fixed for   *)
(* the length of one run.  Storage is the map files from file name to      *)
(* document.  Whether one save_json call succeeds or raises OSError is     *)
(* chosen at each call.                                                    *)
(***************************************************************************)
EXTENDS Integers, Sequences, FiniteSets, TLC

VARIABLES
    \* environment
    hsource,      \* lower chamber: roll -> kind of answer
    ssource,      \* upper chamber: [menu, detail]
    gen,          \* content generation of the source (what the documents say)
    files,        \* storage: file name -> document
    \* collect_house(congress, session, max_probe, stop_gap)
    hpc, roll, misses, found, max_probe, stop_gap, probes, sleeps,
    \* collect_senate(congress, session)
    spc, rows, wstate,
    \* the call in progress and its outcome
    target, result,
    \* main()
    targets, mpc, ti, entries,
    \* runs of the pipeline over the same storage
    run, written, files1, returned1, same,
    \* save_json(path, data), step by step
    disk, dirs, svpc, svpath, svdata, svprev, svcalls, lastRead,
    \* http_json(path, ..., max_retries)
    rpc, attempt, max_retries, responses, naps

envVars    == <<hsource, ssource, gen, files>>
houseVars  == <<hpc, roll, misses, found, max_probe, stop_gap, probes, sleeps>>
senateVars == <<spc, rows, wstate>>
callVars   == <<target, result>>
mainVars   == <<targets, mpc, ti, entries>>
runVars    == <<run, written, files1, returned1, same>>
saveVars   == <<disk, dirs, svpc, svpath, svdata, svprev, svcalls, lastRead>>
retryVars  == <<rpc, attempt, max_retries, responses, naps>>

vars == <<envVars, houseVars, senateVars, callVars, mainVars, runVars,
          saveVars, retryVars>>

----------------------------------------------------------------------------
(* Bounds of the model *)

\* largest probe ceiling tried for collect_house (the code's default is 1200)
MaxProbe == 4
\* largest miss-streak threshold tried (the code's default is 30)
MaxGap == 3
\* the pacing period of collect_house (the code's is 20)
PaceEvery == 2
\* longest upper-chamber menu
MaxMenu == 2
\* largest roll number an upper-chamber menu names
MaxRoll == 2
\* probe ceiling in the specifications that run main() or run twice
SmallProbe == 2
\* longest menu, and largest roll number in it, in the specification that
\* runs twice
SmallMenu == 2
SmallRoll == 1
\* chunks json.dump writes for one document
DocLen == 2
\* documents save_json is given in SpecSave
MaxDocs == 2
\* save_json calls in one behaviour of SpecSave
MaxCalls == 3
\* largest attempt ceiling tried for http_json (the code's default is 3)
MaxRetries == 3

\* ThreadPoolExecutor(max_workers=8)
max_workers == 8

----------------------------------------------------------------------------
(* Data model *)

NoFile == "absent"
\* no outcome record yet
None == [congress |-> 0, chamber |-> "none", session |-> 0, count |-> 0]

CONGRESS == 119

HouseTarget  == [congress |-> CONGRESS, chamber |-> "house", session |-> 1]
SenateTarget == [congress |-> CONGRESS, chamber |-> "senate", session |-> 1]

\* Answers of the lower-chamber source to a probe of one roll:
\*   ok         200 and a well-formed vote document
\*   notfound   404
\*   http_error another error status (raise_for_status raises HTTPError)
\*   transport  no response (requests raises ConnectionError or Timeout)
\*   bad_xml    200 but ET.fromstring raises
\*   bad_shape  200, well-formed XML without the expected elements
HouseKinds == {"ok", "notfound", "http_error", "transport", "bad_xml", "bad_shape"}

\* Answers of the upper-chamber source for one detail document
DetailKinds == {"ok", "fetch_error", "parse_error"}

\* The roll_call_vote_number of a menu entry: absent or empty (""), not a
\* number ("x"), or a numeral.
Numerals == <<"1", "2", "3", "4", "5", "6", "7", "8", "9">>

RollTexts(k) == {"", "x"} \cup {Numerals[i] : i \in 1..k}

\* int(get_text(vs, "roll_call_vote_number", "0")): the default "0" for an
\* absent or empty element; a ValueError for text that is no numeral.
CanParseRoll(txt) == txt = "" \/ \E i \in 1..Len(Numerals) : Numerals[i] = txt

ParseRoll(txt) ==
    IF txt = "" THEN 0 ELSE CHOOSE i \in 1..Len(Numerals) : Numerals[i] = txt

\* the summary fields both chambers share
Summary(t, r, content) ==
    [congress |-> t.congress, chamber |-> t.chamber, session |-> t.session,
     rollcall |-> r, content |-> content]

\* Key with the chamber left out of the text
KeyNoChamber(t, r) ==
    ToString(t.congress) \o "-" \o ToString(t.session) \o "-" \o ToString(r)

\* f"{congress}-senate-{session}-{roll}" / f"{congress}-house-{session}-{roll}"
Key(t, r) ==
    ToString(t.congress) \o "-" \o t.chamber \o "-" \o ToString(t.session)
        \o "-" \o ToString(r)

Detail(t, r, content) ==
    [key |-> Key(t, r), congress |-> t.congress, chamber |-> t.chamber,
     session |-> t.session, rollcall |-> r, content |-> content]

Outcome(t, n) ==
    [congress |-> t.congress, chamber |-> t.chamber, session |-> t.session,
     count |-> n]

\* WEB_DATA / f"votes-{congress}-{chamber}-{session}.json"
ListPath(t) ==
    "votes-" \o ToString(t.congress) \o "-" \o t.chamber \o "-"
        \o ToString(t.session) \o ".json"

\* WEB_DATA / f"vote-{congress}-{chamber}-{session}-{roll}.json"
DetailPath(t, r) ==
    "vote-" \o ToString(t.congress) \o "-" \o t.chamber \o "-"
        \o ToString(t.session) \o "-" \o ToString(r) \o ".json"

\* WEB_DATA / "votes-index.json"
IndexPath == "votes-index.json"

\* path.with_suffix(path.suffix + ".tmp"), written in place of the target
TmpPathInPlace(path) == path

\* path.with_suffix(path.suffix + ".tmp")
TmpPath(path) == path \o ".tmp"

\* SaveJson that leaves an existing file alone
SaveJsonKeepExisting(fs, path, data) ==
    [p \in (DOMAIN fs) \cup {path} |-> IF p \in DOMAIN fs THEN fs[p] ELSE data]

\* save_json as its callers see it when it returns: the document is at path
SaveJson(fs, path, data) ==
    [p \in (DOMAIN fs) \cup {path} |-> IF p = path THEN data ELSE fs[p]]

ReadFile(fs, path) == IF path \in DOMAIN fs THEN fs[path] ELSE NoFile

EmptyFiles == [p \in {} |-> NoFile]

\* list.sort(key=lambda x: x["rollcall"]): stable, ascending
RECURSIVE InsertByRollcall(_, _)
InsertByRollcall(s, x) ==
    IF s = <<>> THEN <<x>>
    ELSE IF s[Len(s)].rollcall <= x.rollcall THEN Append(s, x)
    ELSE Append(InsertByRollcall(SubSeq(s, 1, Len(s) - 1), x), s[Len(s)])

RECURSIVE SortByRollcall(_)
SortByRollcall(s) ==
    IF s = <<>> THEN <<>>
    ELSE InsertByRollcall(SortByRollcall(SubSeq(s, 1, Len(s) - 1)), s[Len(s)])

Rollcalls(s) == {s[i].rollcall : i \in 1..Len(s)}

----------------------------------------------------------------------------
(* The sources *)

\* every lower-chamber source that answers the rolls 1..n (rolls past the
\* probe ceiling are never asked for)
HouseSources(n) ==
    {h \in [1..MaxProbe -> HouseKinds] :
        \A r \in 1..MaxProbe : r > n => h[r] = "notfound"}

NoHouseSource == [r \in 1..MaxProbe |-> "notfound"]

\* what the menu URL can answer: an error status, a document that is no
\* XML, or a menu of up to n entries naming rolls up to k
Menus(n, k) ==
    {[status |-> st, entries |-> <<>>] : st \in {"http_error", "bad_xml"}}
    \cup {[status |-> "ok", entries |-> e] :
            e \in UNION {[1..len -> RollTexts(k)] : len \in 0..n}}

MenuRolls(m) ==
    {ParseRoll(m.entries[i]) :
        i \in {j \in 1..Len(m.entries) : CanParseRoll(m.entries[j])}}

\* every upper-chamber source (detail documents the menu does not name are
\* never asked for)
SenateSources(n, k) ==
    {s \in [menu : Menus(n, k), detail : [0..MaxRoll -> DetailKinds]] :
        \A r \in 0..MaxRoll : r \notin MenuRolls(s.menu) => s.detail[r] = "ok"}

UsedSenateSources == SenateSources(MaxMenu, MaxRoll)

\* the sources of the specifications that run twice
SmallSenateSources == SenateSources(SmallMenu, SmallRoll)

NoSenateSource ==
    [menu |-> [status |-> "http_error", entries |-> <<>>],
     detail |-> [r \in 0..MaxRoll |-> "ok"]]

----------------------------------------------------------------------------
(* collect_house: one action per iteration of the probe loop *)

\* ProbeStep with the streak test written misses > stop_gap
ProbeStepStrictGap(kind, wok) ==
    CASE kind \in {"notfound", "http_error"} ->
            [misses |-> misses + 1, found |-> found, save |-> FALSE,
             sleep |-> FALSE,
             brk |-> (misses + 1 > stop_gap /\ Len(found) > 0)]
      [] kind \in {"transport", "bad_xml"} ->
            [misses |-> misses, found |-> found, save |-> FALSE,
             sleep |-> FALSE, brk |-> FALSE]
      [] kind = "bad_shape" ->
            [misses |-> 0, found |-> found, save |-> FALSE,
             sleep |-> FALSE, brk |-> FALSE]
      [] kind = "ok" ->
            [misses |-> 0,
             found |-> Append(found, Summary(target, roll, gen)),
             save |-> wok,
             sleep |-> (wok /\ roll % PaceEvery = 0),
             brk |-> FALSE]

\* ProbeStep with found.append moved after save_json
ProbeStepAppendAfterSave(kind, wok) ==
    CASE kind \in {"notfound", "http_error"} ->
            [misses |-> misses + 1, found |-> found, save |-> FALSE,
             sleep |-> FALSE,
             brk |-> (misses + 1 >= stop_gap /\ Len(found) > 0)]
      [] kind \in {"transport", "bad_xml"} ->
            [misses |-> misses, found |-> found, save |-> FALSE,
             sleep |-> FALSE, brk |-> FALSE]
      [] kind = "bad_shape" ->
            [misses |-> 0, found |-> found, save |-> FALSE,
             sleep |-> FALSE, brk |-> FALSE]
      [] kind = "ok" ->
            [misses |-> 0,
             found |-> IF wok
                       THEN Append(found, Summary(target, roll, gen))
                       ELSE found,
             save |-> wok,
             sleep |-> (wok /\ roll % PaceEvery = 0),
             brk |-> FALSE]

\* ProbeStep with found.append indented under the pacing test
ProbeStepAppendOnPace(kind, wok) ==
    CASE kind \in {"notfound", "http_error"} ->
            [misses |-> misses + 1, found |-> found, save |-> FALSE,
             sleep |-> FALSE,
             brk |-> (misses + 1 >= stop_gap /\ Len(found) > 0)]
      [] kind \in {"transport", "bad_xml"} ->
            [misses |-> misses, found |-> found, save |-> FALSE,
             sleep |-> FALSE, brk |-> FALSE]
      [] kind = "bad_shape" ->
            [misses |-> 0, found |-> found, save |-> FALSE,
             sleep |-> FALSE, brk |-> FALSE]
      [] kind = "ok" ->
            [misses |-> 0,
             found |-> IF roll % PaceEvery = 0
                       THEN Append(found, Summary(target, roll, gen))
                       ELSE found,
             save |-> wok,
             sleep |-> (wok /\ roll % PaceEvery = 0),
             brk |-> FALSE]

\* ProbeStep with the streak accepted while found is still empty
ProbeStepNoFoundTest(kind, wok) ==
    CASE kind \in {"notfound", "http_error"} ->
            [misses |-> misses + 1, found |-> found, save |-> FALSE,
             sleep |-> FALSE,
             brk |-> (misses + 1 >= stop_gap)]
      [] kind \in {"transport", "bad_xml"} ->
            [misses |-> misses, found |-> found, save |-> FALSE,
             sleep |-> FALSE, brk |-> FALSE]
      [] kind = "bad_shape" ->
            [misses |-> 0, found |-> found, save |-> FALSE,
             sleep |-> FALSE, brk |-> FALSE]
      [] kind = "ok" ->
            [misses |-> 0,
             found |-> Append(found, Summary(target, roll, gen)),
             save |-> wok,
             sleep |-> (wok /\ roll % PaceEvery = 0),
             brk |-> FALSE]

\* ProbeStep with misses left as it is when a roll is found
ProbeStepNoReset(kind, wok) ==
    CASE kind \in {"notfound", "http_error"} ->
            [misses |-> misses + 1, found |-> found, save |-> FALSE,
             sleep |-> FALSE,
             brk |-> (misses + 1 >= stop_gap /\ Len(found) > 0)]
      [] kind \in {"transport", "bad_xml"} ->
            [misses |-> misses, found |-> found, save |-> FALSE,
             sleep |-> FALSE, brk |-> FALSE]
      [] kind = "bad_shape" ->
            [misses |-> misses, found |-> found, save |-> FALSE,
             sleep |-> FALSE, brk |-> FALSE]
      [] kind = "ok" ->
            [misses |-> misses,
             found |-> Append(found, Summary(target, roll, gen)),
             save |-> wok,
             sleep |-> (wok /\ roll % PaceEvery = 0),
             brk |-> FALSE]

\* What one iteration does for the answer `kind` to the probe of `roll`;
\* wok says whether the save_json of the detail document succeeds.
\*   misses, found: the counters after the iteration
\*   save:  the detail document was persisted
\*   sleep: the pacing sleep was taken
\*   brk:   the loop was left by break
ProbeStep(kind, wok) ==
    CASE kind \in {"notfound", "http_error"} ->
            \* fetch_house_roll returned (None, url), or raise_for_status
            \* raised requests.HTTPError
            [misses |-> misses + 1, found |-> found, save |-> FALSE,
             sleep |-> FALSE,
             brk |-> (misses + 1 >= stop_gap /\ Len(found) > 0)]
      [] kind \in {"transport", "bad_xml"} ->
            \* SESS.get or ET.fromstring raised inside fetch_house_roll:
            \* except Exception: continue
            [misses |-> misses, found |-> found, save |-> FALSE,
             sleep |-> FALSE, brk |-> FALSE]
      [] kind = "bad_shape" ->
            \* misses = 0 ran, then normalize_house_roll raised
            [misses |-> 0, found |-> found, save |-> FALSE,
             sleep |-> FALSE, brk |-> FALSE]
      [] kind = "ok" ->
            \* found.append precedes save_json; an OSError of save_json is
            \* caught by except Exception and skips the pacing sleep
            [misses |-> 0,
             found |-> Append(found, Summary(target, roll, gen)),
             save |-> wok,
             sleep |-> (wok /\ roll % PaceEvery = 0),
             brk |-> FALSE]

\* RangeExhausted with the ceiling itself left out of the test
RangeExhaustedLate(r) == r > max_probe

\* for roll in range(1, max_probe+1): r is the last roll the range yields
RangeExhausted(r) == r >= max_probe

HouseProbe ==
    /\ hpc = "loop"
    /\ \E wok \in BOOLEAN :
        LET s == ProbeStep(hsource[roll], wok)
            path == DetailPath(target, roll)
        IN  /\ misses' = s.misses
            /\ found' = s.found
            /\ files' = IF s.save
                        THEN SaveJson(files, path, Detail(target, roll, gen))
                        ELSE files
            /\ written' = IF s.save THEN written \cup {path} ELSE written
            /\ probes' = Append(probes, roll)
            /\ sleeps' = IF s.sleep THEN sleeps \cup {roll} ELSE sleeps
            /\ IF s.brk \/ RangeExhausted(roll)
               THEN hpc' = "done" /\ roll' = roll
               ELSE hpc' = "loop" /\ roll' = roll + 1
    /\ UNCHANGED <<hsource, ssource, gen, max_probe, stop_gap, senateVars,
                   callVars, mainVars, run, files1, returned1, same,
                   saveVars, retryVars>>

\* found.sort(...); save_json(list file, found); return the outcome record.
\* An OSError of save_json leaves collect_house as an exception.
HouseFinish ==
    /\ hpc = "done"
    /\ found' = SortByRollcall(found)
    /\ \E wok \in BOOLEAN :
        IF wok
        THEN /\ files' = SaveJson(files, ListPath(target), found')
             /\ written' = written \cup {ListPath(target)}
             /\ hpc' = "returned"
             /\ result' = Outcome(target, Len(found'))
        ELSE /\ hpc' = "raised"
             /\ UNCHANGED <<files, written, result>>
    /\ UNCHANGED <<hsource, ssource, gen, roll, misses, max_probe, stop_gap,
                   probes, sleeps, senateVars, target, mainVars, run, files1, returned1, same, saveVars, retryVars>>

----------------------------------------------------------------------------
(* collect_senate *)

\* normalize_senate_menu: one row per vote_summary element, sorted by rollcall
NormalizeSenateMenu(vs, t, content) ==
    SortByRollcall([i \in 1..Len(vs) |-> Summary(t, ParseRoll(vs[i]), content)])

\* fetch_senate_menu and normalize_senate_menu; an HTTP error status, a
\* document that is no XML, or a roll number that is no numeral raises
SenateMenu ==
    /\ spc = "menu"
    /\ LET m == ssource.menu IN
        IF m.status = "ok" /\ \A i \in 1..Len(m.entries) : CanParseRoll(m.entries[i])
        THEN /\ rows' = NormalizeSenateMenu(m.entries, target, gen)
             /\ spc' = "list"
        ELSE /\ spc' = "raised"
             /\ rows' = rows
    /\ UNCHANGED <<envVars, houseVars, wstate, callVars, mainVars, runVars,
                   saveVars, retryVars>>

\* save_json(list file, rows), then the pool is handed every row
SenateSaveList ==
    /\ spc = "list"
    /\ \E wok \in BOOLEAN :
        IF wok
        THEN /\ files' = SaveJson(files, ListPath(target), rows)
             /\ written' = written \cup {ListPath(target)}
             /\ wstate' = [i \in 1..Len(rows) |-> "queued"]
             /\ spc' = "pool"
        ELSE /\ spc' = "raised"
             /\ UNCHANGED <<files, written, wstate>>
    /\ UNCHANGED <<hsource, ssource, gen, houseVars, rows, callVars, mainVars,
                   run, files1, returned1, same, saveVars, retryVars>>

\* Work with the parse of the detail document left unchecked
WorkParseUnchecked(kind) ==
    IF kind \in {"ok", "parse_error"} THEN "saving" ELSE "failed"

\* work(row) up to its save_json: fetch_senate_roll and normalize_senate_roll;
\* any exception makes work return False
Work(kind) == IF kind = "ok" THEN "saving" ELSE "failed"

Running == {j \in DOMAIN wstate : wstate[j] = "saving"}

\* The pool takes the rows in order, at most max_workers at a time.
WorkFetch(i) ==
    /\ spc = "pool"
    /\ wstate[i] = "queued"
    /\ \A j \in 1..(i - 1) : wstate[j] # "queued"
    /\ Cardinality(Running) < max_workers
    /\ wstate' = [wstate EXCEPT ![i] = Work(ssource.detail[rows[i].rollcall])]
    /\ UNCHANGED <<envVars, houseVars, spc, rows, callVars, mainVars, runVars,
                   saveVars, retryVars>>

\* work(row): save_json of the detail document, then return True; an OSError
\* makes work return False
WorkSave(i) ==
    /\ spc = "pool"
    /\ wstate[i] = "saving"
    /\ LET r == rows[i].rollcall
           path == DetailPath(target, r)
       IN \E wok \in BOOLEAN :
            IF wok
            THEN /\ files' = SaveJson(files, path, Detail(target, r, gen))
                 /\ written' = written \cup {path}
                 /\ wstate' = [wstate EXCEPT ![i] = "saved"]
            ELSE /\ wstate' = [wstate EXCEPT ![i] = "failed"]
                 /\ UNCHANGED <<files, written>>
    /\ UNCHANGED <<hsource, ssource, gen, houseVars, spc, rows, callVars,
                   mainVars, run, files1, returned1, same, saveVars,
                   retryVars>>

\* the with block ends when every worker has finished; count is len(rows)
SenateReturn ==
    /\ spc = "pool"
    /\ \A i \in DOMAIN wstate : wstate[i] \in {"saved", "failed"}
    /\ spc' = "returned"
    /\ result' = Outcome(target, Len(rows))
    /\ UNCHANGED <<envVars, houseVars, rows, wstate, target, mainVars, runVars,
                   saveVars, retryVars>>

IsHouse == target.chamber = "house"

IsSenate == target.chamber = "senate"

\* the adapter called for the target has returned its outcome record
CollectReturned == hpc = "returned" \/ spc = "returned"

Collect ==
    \/ HouseProbe
    \/ HouseFinish
    \/ SenateMenu
    \/ SenateSaveList
    \/ \E i \in 1..MaxMenu : i \in DOMAIN wstate /\ WorkFetch(i)
    \/ \E i \in 1..MaxMenu : i \in DOMAIN wstate /\ WorkSave(i)
    \/ SenateReturn

----------------------------------------------------------------------------
(* Initial values of the parts a specification does not run *)

HouseIdle ==
    /\ hpc = "idle" /\ roll = 1 /\ misses = 0 /\ found = <<>>
    /\ probes = <<>> /\ sleeps = {}

SenateIdle == spc = "idle" /\ rows = <<>> /\ wstate = <<>>

MainIdle == targets = <<>> /\ mpc = "idle" /\ ti = 1 /\ entries = <<>>

SaveIdle ==
    /\ disk = EmptyFiles /\ dirs = FALSE /\ svpc = "idle"
    /\ svpath = IndexPath /\ svdata = 0 /\ svprev = <<>> /\ svcalls = 0
    /\ lastRead = <<>>

RetryIdle ==
    /\ rpc = "idle" /\ attempt = 1 /\ max_retries = 0 /\ responses = <<>>
    /\ naps = <<>>

FirstRun ==
    /\ run = 1 /\ written = {} /\ files1 = EmptyFiles
    /\ returned1 = FALSE /\ same = TRUE

\* the entry of collect_house / collect_senate for target t
HouseEntry == hpc = "loop" /\ roll = 1 /\ misses = 0 /\ found = <<>>
                /\ probes = <<>> /\ sleeps = {}

SenateEntry == spc = "menu" /\ rows = <<>> /\ wstate = <<>>

----------------------------------------------------------------------------
(* Spec: one call of collect_house or collect_senate on empty storage *)

Init ==
    /\ gen = 1
    /\ files = EmptyFiles
    /\ result = None
    /\ target \in {HouseTarget, SenateTarget}
    /\ IF target.chamber = "house"
       THEN /\ max_probe \in 1..MaxProbe
            /\ stop_gap \in 1..MaxGap
            /\ hsource \in HouseSources(max_probe)
            /\ ssource = NoSenateSource
            /\ HouseEntry
            /\ SenateIdle
       ELSE /\ max_probe = MaxProbe
            /\ stop_gap = MaxGap
            /\ hsource = NoHouseSource
            /\ ssource \in UsedSenateSources
            /\ HouseIdle
            /\ SenateEntry
    /\ FirstRun
    /\ MainIdle
    /\ SaveIdle
    /\ RetryIdle

Next == Collect

Spec == Init /\ [][Next]_vars

\* The same call under the scheduling of collect_house: straight-line code in
\* one thread whose every request carries a timeout (SESS.get(url,
\* timeout=20)), so an iteration that can run does run, and so does the code
\* after the loop.
SpecLive ==
    Init /\ [][Next]_vars
         /\ WF_houseVars(HouseProbe) /\ WF_houseVars(HouseFinish)

----------------------------------------------------------------------------
(* Properties of one collection call (Spec) *)

\* the source of the probe termination property: rolls 1..n exist and are
\* parseable, rolls n+1..n+stop_gap answer 404, and n+stop_gap <= max_probe
ProbePattern(n) ==
    /\ IsHouse
    /\ n + stop_gap <= max_probe
    /\ \A r \in 1..n : hsource[r] = "ok"
    /\ \A r \in (n + 1)..(n + stop_gap) : hsource[r] = "notfound"

HouseLoopLeft == hpc \in {"done", "returned", "raised"}

\* C1: probe termination.  Against a source where rolls 1..N exist and rolls
\* N+1..N+stop_gap answer 404 (N >= 1, stop_gap >= 1, N+stop_gap <= max_probe),
\* collect_house never fetches a roll above N+stop_gap, leaves its loop with
\* found = the summaries of exactly the rolls 1..N, and the list file it
\* writes holds exactly those N summaries.
C1_ProbeTermination ==
    \A n \in 1..MaxProbe :
        ProbePattern(n) =>
            /\ roll <= n + stop_gap
            /\ \A i \in 1..Len(probes) : probes[i] <= n + stop_gap
            /\ HouseLoopLeft =>
                /\ found = [r \in 1..n |-> Summary(target, r, gen)]
                /\ Len(probes) = n + stop_gap
            /\ hpc = "returned" =>
                /\ ReadFile(files, ListPath(target))
                       = [r \in 1..n |-> Summary(target, r, gen)]
                /\ result = Outcome(target, n)

\* the loop ended early, below the probe ceiling, on the completed streak
C1_Witness ==
    \E n \in 1..MaxProbe :
        /\ ProbePattern(n)
        /\ n + stop_gap < max_probe
        /\ stop_gap >= 2
        /\ hpc = "returned"
        /\ Len(probes) = n + stop_gap

WorkerKind(i) == ssource.detail[rows[i].rollcall]

\* C4: per-roll failure isolation of collect_senate.  A roll whose detail
\* fetch or parse fails gets no detail document, the list file already holds
\* its summary, the pool goes on (it is never left by an exception and can
\* always take a step until every row was attempted), and collect_senate
\* returns its outcome record once every row was attempted.
C4_SenateRollIsolation ==
    IsSenate =>
        /\ \A i \in DOMAIN wstate :
            WorkerKind(i) # "ok" =>
                /\ wstate[i] \in {"queued", "failed"}
                /\ DetailPath(target, rows[i].rollcall) \notin DOMAIN files
                /\ rows[i].rollcall
                       \in Rollcalls(ReadFile(files, ListPath(target)))
        /\ spc = "raised" => wstate = <<>>
        /\ spc = "pool" => ENABLED Collect
        /\ spc = "returned" =>
            /\ \A i \in 1..Len(rows) : wstate[i] \in {"saved", "failed"}
            /\ result = Outcome(target, Len(rows))

\* collect_senate returned although one roll failed to parse and another
\* failed to fetch; a third roll's document was written
C4_Witness ==
    /\ IsSenate
    /\ spc = "returned"
    /\ \E i, j \in DOMAIN wstate :
        /\ i < j
        /\ {WorkerKind(i), WorkerKind(j)} \in
               {{"parse_error", "ok"}, {"fetch_error", "ok"}}
        /\ "saved" \in {wstate[i], wstate[j]}

StrictlyAscending(s) ==
    \A i \in 1..(Len(s) - 1) : s[i].rollcall < s[i + 1].rollcall

\* C5: every list file in storage is strictly ascending by rollcall (sorted,
\* and no two entries with the same rollcall).
C5_ListsStrictlyAscending ==
    \A t \in {HouseTarget, SenateTarget} :
        ListPath(t) \in DOMAIN files => StrictlyAscending(files[ListPath(t)])

AllRolls == 0..(IF MaxProbe > MaxRoll THEN MaxProbe ELSE MaxRoll)

\* C6: detail implies summary.  When a collection run of a target has
\* returned, every detail document the run wrote has an entry with the same
\* rollcall in the target's list file.
C6_DetailImpliesSummary ==
    CollectReturned =>
        \A r \in AllRolls :
            DetailPath(target, r) \in written =>
                /\ ListPath(target) \in DOMAIN files
                /\ r \in Rollcalls(files[ListPath(target)])

\* a lower-chamber run that wrote one detail document and failed to write
\* another one
C6_Witness ==
    /\ hpc = "returned"
    /\ \E r1, r2 \in Rollcalls(found) :
        /\ DetailPath(target, r1) \in written
        /\ DetailPath(target, r2) \notin written
    /\ \E r \in 1..max_probe : hsource[r] = "bad_shape"

\* the answer of the source to the probe a step of the loop makes
ProbedKind == hsource[roll]

\* C12: in collect_house every fetch failure other than a 404 (another HTTP
\* error status, or a transport error) is handled like a 404 miss: the step
\* adds one to misses, leaves found alone, ends the loop when misses has
\* reached stop_gap and found is non-empty, and otherwise goes on to the next
\* roll without probing the same roll again.
C12_FetchFailureIsMiss ==
    [][ (hpc = "loop" /\ ProbedKind \in {"http_error", "transport"}) =>
            /\ misses' = misses + 1
            /\ found' = found
            /\ probes' = Append(probes, roll)
            /\ (misses + 1 >= stop_gap /\ Len(found) > 0) => hpc' = "done"
            /\ hpc' = "loop" => roll' = roll + 1 ]_vars

\* C13: in collect_house a parse failure on a fetched document (malformed
\* XML, or XML of an unexpected shape) skips the roll: nothing is appended to
\* found, no detail document is written, and misses after the step is what
\* it was before the step.
C13_ParseFailureKeepsStreak ==
    [][ (hpc = "loop" /\ ProbedKind \in {"bad_xml", "bad_shape"}) =>
            /\ found' = found
            /\ files' = files
            /\ misses' = misses ]_vars

\* the answer the i-th probe of the loop got
KindOfProbe(i) == hsource[probes[i]]

\* the number of probes made since the last one that found a roll (all of
\* them when none did)
ProbesSinceFound ==
    LET oks == {i \in 1..Len(probes) : KindOfProbe(i) = "ok"} IN
    IF oks = {} THEN Len(probes)
    ELSE Len(probes) - (CHOOSE i \in oks : \A j \in oks : j <= i)

\* C14: the miss-streak rule of collect_house.
\* (a) A loop that ended while found is empty ended at the probe ceiling.
\* (b) misses never exceeds the number of probes made since the last found
\*     roll (a found roll resets it to 0), so misses on both sides of a found
\*     roll do not add up; a loop that ended below the ceiling ended with
\*     misses >= stop_gap.
\* (c) When the last stop_gap probes all answered 404 and a roll was found
\*     before them, the loop has ended with the last of them.
C14_MissStreakRule ==
    IsHouse =>
        /\ (HouseLoopLeft /\ found = <<>>) => Len(probes) = max_probe
        /\ misses <= ProbesSinceFound
        /\ (HouseLoopLeft /\ Len(probes) < max_probe) =>
            (misses >= stop_gap /\ found # <<>>)
        /\ \A i \in stop_gap..Len(probes) :
            ( /\ \A j \in (i - stop_gap + 1)..i : KindOfProbe(j) = "notfound"
              /\ \E j \in 1..(i - stop_gap) : KindOfProbe(j) = "ok" ) =>
                (Len(probes) = i /\ HouseLoopLeft)

\* stop_gap misses in all, on both sides of a found roll, and the loop goes
\* on to the next roll
C14_Witness ==
    /\ IsHouse
    /\ stop_gap = 2
    /\ probes = <<1, 2, 3>>
    /\ KindOfProbe(1) = "notfound"
    /\ KindOfProbe(2) = "ok"
    /\ KindOfProbe(3) = "notfound"
    /\ hpc = "loop"
    /\ roll = 4
    /\ misses = 1

\* what the probe loop has done so far is in order: rolls 1, 2, 3, ..., each
\* once, none above the ceiling; and a call that returned wrote found as the
\* list file
ProbesInOrder ==
    /\ probes = [i \in 1..Len(probes) |-> i]
    /\ Len(probes) <= max_probe
    /\ roll <= max_probe
    /\ hpc = "loop" => roll = Len(probes) + 1
    /\ hpc = "returned" =>
        /\ ListPath(target) \in DOMAIN files
        /\ files[ListPath(target)] = found

\* C15: hard stop and termination of collect_house (checked under SpecLive).
\* Whatever the source answers, the loop probes the rolls 1, 2, 3, ... in
\* increasing order, each at most once, and none above max_probe; it always
\* reaches Done; and from Done the list file is saved: the call returns with
\* found (empty or not) in the list file, or save_json raises.
C15_HardStop ==
    /\ [](IsHouse => ProbesInOrder)
    /\ (IsHouse /\ hpc = "loop") ~> (hpc = "done")
    /\ (hpc = "done") ~> (hpc \in {"returned", "raised"})

\* a source that never gives a countable miss: the loop ran to the largest
\* ceiling, found nothing, and wrote the empty list
C15_Witness ==
    /\ IsHouse
    /\ max_probe = MaxProbe
    /\ \A r \in 1..max_probe : hsource[r] \in {"transport", "bad_xml", "bad_shape"}
    /\ hpc = "returned"
    /\ Len(probes) = max_probe
    /\ ListPath(target) \in DOMAIN files
    /\ files[ListPath(target)] = <<>>

\* the workers that have begun work(row) for a row of roll r: each of them
\* makes one call of fetch_senate_roll for r
AttemptsOf(r) ==
    Cardinality({i \in DOMAIN wstate :
                    rows[i].rollcall = r /\ wstate[i] # "queued"})

\* C16: the upper-chamber worker pool.  For every menu and every
\* interleaving of the workers, the detail fetch of a roll of the menu is
\* attempted at most once while the pool runs and exactly once by the time
\* collect_senate returns; it returns only when every worker has finished;
\* and the detail documents in storage at return are those of the rolls
\* whose fetch, parse and write all succeeded.
C16_PoolAttemptsEachRollOnce ==
    IsSenate =>
        /\ \A r \in Rollcalls(rows) : AttemptsOf(r) <= 1
        /\ spc = "returned" =>
            /\ \A i \in DOMAIN wstate : wstate[i] \in {"saved", "failed"}
            /\ \A r \in Rollcalls(rows) : AttemptsOf(r) = 1
            /\ {r \in AllRolls : DetailPath(target, r) \in DOMAIN files}
                   = {rows[i].rollcall :
                        i \in {j \in DOMAIN wstate : wstate[j] = "saved"}}

\* the workers that are inside save_json: the document is fetched and
\* parsed, save_json has not returned or raised yet
InSaveJson == {i \in DOMAIN wstate : wstate[i] = "saving"}

\* C17: within one run of collect_senate, whatever the menu, no two workers
\* are inside save_json at the same time with the same target path or the
\* same temporary sibling path.
C17_NoTwoWritersOnePath ==
    \A i, j \in InSaveJson :
        i # j =>
            /\ DetailPath(target, rows[i].rollcall)
                   # DetailPath(target, rows[j].rollcall)
            /\ TmpPath(DetailPath(target, rows[i].rollcall))
                   # TmpPath(DetailPath(target, rows[j].rollcall))

\* C18: pacing of collect_house.  After the probe of every roll that is a
\* multiple of the pacing period, whatever the source answered, the pacing
\* sleep is taken before the next probe is made.
C18_PacingEveryProbe ==
    IsHouse =>
        \A i \in 1..Len(probes) :
            (probes[i] % PaceEvery = 0 /\ (i < Len(probes) \/ hpc = "loop")) =>
                probes[i] \in sleeps

\* C19: the loop invariant of collect_house, for stop_gap >= 1.  misses is
\* never negative; at the start of an iteration misses < stop_gap whenever
\* found is non-empty, so misses reaches stop_gap only while found is empty
\* or in the step that leaves the loop; right after a found roll misses is
\* 0; found is strictly ascending by rollcall at all times, so sorting it
\* changes nothing.
C19_LoopInvariant ==
    (IsHouse /\ stop_gap >= 1) =>
        /\ misses >= 0
        /\ (hpc = "loop" /\ found # <<>>) => misses < stop_gap
        /\ (Len(probes) > 0 /\ KindOfProbe(Len(probes)) = "ok") => misses = 0
        /\ StrictlyAscending(found)
        /\ SortByRollcall(found) = found

\* misses had passed stop_gap while found was empty, and the first found
\* roll has just reset it
C19_Witness ==
    /\ IsHouse
    /\ stop_gap = 1
    /\ probes = <<1, 2, 3>>
    /\ KindOfProbe(1) = "notfound"
    /\ KindOfProbe(2) = "http_error"
    /\ KindOfProbe(3) = "ok"
    /\ hpc = "loop"
    /\ misses = 0
    /\ Len(found) = 1

----------------------------------------------------------------------------
(* main: SpecMain runs the whole pipeline once on empty storage *)

\* for congress, chamber, session in targets: the call of the adapter
MainCall ==
    /\ mpc = "loop"
    /\ ti <= Len(targets)
    /\ target' = targets[ti]
    /\ mpc' = "collecting"
    /\ IF targets[ti].chamber = "senate"
       THEN /\ spc' = "menu" /\ rows' = <<>> /\ wstate' = <<>>
            /\ UNCHANGED houseVars
       ELSE /\ hpc' = "loop" /\ roll' = 1 /\ misses' = 0 /\ found' = <<>>
            /\ probes' = <<>> /\ sleeps' = {}
            /\ UNCHANGED <<max_probe, stop_gap, senateVars>>
    /\ UNCHANGED <<envVars, result, targets, ti, entries, runVars, saveVars,
                   retryVars>>

\* entries.append(collect_senate(...)) / entries.append(collect_house(...))
MainAppend ==
    /\ mpc = "collecting"
    /\ hpc = "returned" \/ spc = "returned"
    /\ entries' = Append(entries, result)
    /\ ti' = ti + 1
    /\ mpc' = "loop"
    /\ hpc' = "idle"
    /\ spc' = "idle"
    /\ UNCHANGED <<envVars, roll, misses, found, max_probe, stop_gap, probes,
                   sleeps, rows, wstate, callVars, targets, runVars, saveVars,
                   retryVars>>

\* the loop of main has no handler: an exception of an adapter leaves main
MainRaise ==
    /\ mpc = "collecting"
    /\ hpc = "raised" \/ spc = "raised"
    /\ mpc' = "crashed"
    /\ UNCHANGED <<envVars, houseVars, senateVars, callVars, targets, ti,
                   entries, runVars, saveVars, retryVars>>

\* build_index(entries), after the loop
BuildIndex ==
    /\ mpc = "loop"
    /\ ti > Len(targets)
    /\ \E wok \in BOOLEAN :
        IF wok
        THEN /\ files' = SaveJson(files, IndexPath,
                                  [generated_at |-> run, datasets |-> entries])
             /\ written' = written \cup {IndexPath}
             /\ mpc' = "done"
        ELSE /\ mpc' = "crashed"
             /\ UNCHANGED <<files, written>>
    /\ UNCHANGED <<hsource, ssource, gen, houseVars, senateVars, callVars,
                   targets, ti, entries, run, files1, returned1, same,
                   saveVars, retryVars>>

TargetLists == {<<HouseTarget, SenateTarget>>, <<SenateTarget, HouseTarget>>}

InitMain ==
    /\ gen = 1
    /\ files = EmptyFiles
    /\ result = None
    /\ targets \in TargetLists
    /\ target = targets[1]
    /\ mpc = "loop" /\ ti = 1 /\ entries = <<>>
    /\ max_probe = SmallProbe
    /\ stop_gap \in 1..SmallProbe
    /\ hsource \in HouseSources(SmallProbe)
    /\ ssource \in UsedSenateSources
    /\ HouseIdle
    /\ SenateIdle
    /\ FirstRun
    /\ SaveIdle
    /\ RetryIdle

NextMain ==
    \/ MainCall
    \/ Collect
    \/ MainAppend
    \/ MainRaise
    \/ BuildIndex

SpecMain == InitMain /\ [][NextMain]_vars

\* main over the two targets against sources whose every answer is a
\* document or a plain miss: the answers that decide which detail documents
\* get written (the writes themselves may still fail)
InitKeys ==
    /\ gen = 1
    /\ files = EmptyFiles
    /\ result = None
    /\ targets \in TargetLists
    /\ target = targets[1]
    /\ mpc = "loop" /\ ti = 1 /\ entries = <<>>
    /\ max_probe = SmallProbe
    /\ stop_gap = SmallProbe
    /\ hsource \in {h \in HouseSources(SmallProbe) :
                        \A r \in 1..SmallProbe : h[r] \in {"ok", "notfound"}}
    /\ ssource \in {x \in SmallSenateSources :
                        \A r \in 0..MaxRoll : x.detail[r] = "ok"}
    /\ HouseIdle
    /\ SenateIdle
    /\ FirstRun
    /\ SaveIdle
    /\ RetryIdle

SpecKeys == InitKeys /\ [][NextMain]_vars

----------------------------------------------------------------------------
(* Properties of main (SpecMain) *)

\* C2: target-level failure isolation.  A target whose collection fails as a
\* whole (menu fetch or parse error, list file not writable) does not end
\* main: main goes on to the remaining targets and to build_index, so main
\* ends early only when votes-index.json itself cannot be written, and the
\* index it writes holds the outcome records of the targets that succeeded.
C2_TargetFailureIsolation ==
    /\ (hpc = "raised" \/ spc = "raised") => mpc # "crashed"
    /\ mpc = "crashed" => ti > Len(targets)
    /\ mpc = "done" =>
        /\ IndexPath \in DOMAIN files
        /\ files[IndexPath].datasets = entries

TargetOf(e) ==
    [congress |-> e.congress, chamber |-> e.chamber, session |-> e.session]

PersistedRolls(t) == {r \in AllRolls : DetailPath(t, r) \in written}

\* C7: the index of a completed run gives, for every target in it, the
\* number of roll calls of that target whose detail document was fetched,
\* parsed and persisted in the run.
C7_IndexCountsPersisted ==
    mpc = "done" =>
        /\ IndexPath \in DOMAIN files
        /\ LET ds == files[IndexPath].datasets IN
            \A k \in 1..Len(ds) :
                ds[k].count = Cardinality(PersistedRolls(TargetOf(ds[k])))

\* the file name the key of a detail document stands for
FileName(key) == "vote-" \o key \o ".json"

\* the detail documents in storage: every file that is neither a list file
\* nor the index
DetailFiles ==
    (DOMAIN files)
        \ ({IndexPath} \cup {ListPath(targets[i]) : i \in 1..Len(targets)})

\* C11: key uniqueness.  Over the detail documents in storage during and
\* after a run of main over targets with pairwise distinct (congress,
\* chamber, session): the key of a document is the key of its own congress,
\* chamber, session and rollcall, its file name is the one its key stands
\* for, and no two documents have the same key.
C11_KeyUniqueness ==
    /\ \A p \in DetailFiles :
        /\ files[p].key = Key(TargetOf(files[p]), files[p].rollcall)
        /\ p = FileName(files[p].key)
    /\ \A p, q \in DetailFiles : files[p].key = files[q].key => p = q

\* main is done and both chambers have a detail document for the same roll
\* number in storage
C11_Witness ==
    /\ mpc = "done"
    /\ \E r \in AllRolls :
        /\ DetailPath(HouseTarget, r) \in DetailFiles
        /\ DetailPath(SenateTarget, r) \in DetailFiles

----------------------------------------------------------------------------
(* save_json step by step: SpecSave                                        *)
(*                                                                         *)
(* disk maps a path to the bytes it holds, [doc, len]: the first len of    *)
(* the DocLen chunks json.dump writes for document doc.  A call goes       *)
(* through mkdir, open, write and rename and can be cut short after any of *)
(* them, by an exception of the step or by the end of the process; later   *)
(* calls follow on the same disk.  A reader opens a path at any moment.    *)

Complete(c) == c.len = DocLen

Whole(d) == [doc |-> d, len |-> DocLen]

\* what a reader finds at path: nothing, or the bytes there
Snapshot(d, path) == IF path \in DOMAIN d THEN <<d[path]>> ELSE <<>>

\* tmp.replace(path)
Rename(d, from, to) ==
    [p \in ((DOMAIN d) \ {from}) \cup {to} |->
        IF p = to THEN d[from] ELSE d[p]]

SavePaths == {IndexPath, ListPath(HouseTarget)}

saveOthers == <<envVars, houseVars, senateVars, callVars, mainVars, runVars,
                retryVars>>

SaveCall(path, d) ==
    /\ svpc \in {"idle", "returned", "interrupted"}
    /\ svcalls < MaxCalls
    /\ svcalls' = svcalls + 1
    /\ svpath' = path
    /\ svdata' = d
    /\ svprev' = Snapshot(disk, path)
    /\ svpc' = "mkdir"
    /\ UNCHANGED <<disk, dirs, lastRead>>
    /\ UNCHANGED saveOthers

\* path.parent.mkdir(parents=True, exist_ok=True)
SaveMkdir ==
    /\ svpc = "mkdir"
    /\ dirs' = TRUE
    /\ svpc' = "open"
    /\ UNCHANGED <<disk, svpath, svdata, svprev, svcalls, lastRead>>
    /\ UNCHANGED saveOthers

\* tmp.open("w"): creates the temporary file, or empties the one a cut-short
\* call left behind
SaveOpen ==
    /\ svpc = "open"
    /\ dirs
    /\ disk' = SaveJson(disk, TmpPath(svpath), [doc |-> svdata, len |-> 0])
    /\ svpc' = "write"
    /\ UNCHANGED <<dirs, svpath, svdata, svprev, svcalls, lastRead>>
    /\ UNCHANGED saveOthers

\* json.dump: one more chunk reaches the file; after the last one the with
\* block closes it
SaveWrite ==
    /\ svpc = "write"
    /\ LET tmp == TmpPath(svpath)
           n == disk[tmp].len + 1
       IN /\ disk' = [disk EXCEPT ![tmp].len = n]
          /\ svpc' = IF n = DocLen THEN "rename" ELSE "write"
    /\ UNCHANGED <<dirs, svpath, svdata, svprev, svcalls, lastRead>>
    /\ UNCHANGED saveOthers

\* tmp.replace(path)
SaveRename ==
    /\ svpc = "rename"
    /\ disk' = Rename(disk, TmpPath(svpath), svpath)
    /\ svpc' = "returned"
    /\ UNCHANGED <<dirs, svpath, svdata, svprev, svcalls, lastRead>>
    /\ UNCHANGED saveOthers

\* the call is cut short: the step about to run raises, or the process ends
SaveInterrupt ==
    /\ svpc \in {"mkdir", "open", "write", "rename"}
    /\ svpc' = "interrupted"
    /\ UNCHANGED <<disk, dirs, svpath, svdata, svprev, svcalls, lastRead>>
    /\ UNCHANGED saveOthers

\* a reader opens an output path
SaveRead(path) ==
    /\ lastRead' = Snapshot(disk, path)
    /\ UNCHANGED <<disk, dirs, svpc, svpath, svdata, svprev, svcalls>>
    /\ UNCHANGED saveOthers

InitSave ==
    /\ gen = 1
    /\ files = EmptyFiles
    /\ result = None
    /\ target = HouseTarget
    /\ max_probe = MaxProbe
    /\ stop_gap = MaxGap
    /\ hsource = NoHouseSource
    /\ ssource = NoSenateSource
    /\ HouseIdle
    /\ SenateIdle
    /\ MainIdle
    /\ FirstRun
    /\ SaveIdle
    /\ RetryIdle

NextSave ==
    \/ \E path \in SavePaths, d \in 1..MaxDocs : SaveCall(path, d)
    \/ SaveMkdir
    \/ SaveOpen
    \/ SaveWrite
    \/ SaveRename
    \/ SaveInterrupt
    \/ \E path \in SavePaths : SaveRead(path)

SpecSave == InitSave /\ [][NextSave]_vars

\* C3: atomic write.  Whatever step a save_json call is cut short after, and
\* whenever a reader looks, every output path is absent or holds a complete
\* document, and the path of the call in progress (or of the last call) holds
\* what it held when the call began (nothing, or the previous document) or
\* the complete new document; before the rename it still holds the former.
C3_AtomicWrite ==
    /\ \A path \in SavePaths :
        path \in DOMAIN disk => Complete(disk[path])
    /\ svpc # "idle" =>
        Snapshot(disk, svpath) \in {svprev, <<Whole(svdata)>>}
    /\ svpc \in {"mkdir", "open", "write", "rename", "interrupted"} =>
        Snapshot(disk, svpath) = svprev
    /\ svpc = "returned" => Snapshot(disk, svpath) = <<Whole(svdata)>>
    /\ lastRead = <<>> \/ Complete(lastRead[1])

\* a call was cut short in the middle of its write while the target held the
\* previous document, which a reader has just read
C3_Witness ==
    /\ svpc = "interrupted"
    /\ svprev # <<>>
    /\ svprev[1].doc # svdata
    /\ TmpPath(svpath) \in DOMAIN disk
    /\ disk[TmpPath(svpath)].len \in 1..(DocLen - 1)
    /\ lastRead = svprev

----------------------------------------------------------------------------
(* http_json: SpecRetry, one action per attempt                            *)
(*                                                                         *)
(* What urlopen and json.load can give one attempt:                        *)
(*   ok         a 2xx response with a JSON body                            *)
(*   http       an error status: urllib.error.HTTPError with that code     *)
(*   url_error  the connection could not be made (refused, no route, name  *)
(*              not resolved): urllib.error.URLError                       *)
(*   timeout    the connection was made and the response did not arrive    *)
(*              or broke off (socket timeout, connection reset): http's    *)
(*              TimeoutError / RemoteDisconnected, OSErrors that urlopen   *)
(*              passes on without wrapping them in URLError                *)
(*   bad_json   a 2xx response whose body is no JSON: ValueError           *)

RetryableCodes == {429, 500, 502, 503, 504}

AuthCodes == {401, 403}

HttpCodes == {400, 404} \cup AuthCodes \cup RetryableCodes

Responses ==
    {[type |-> "ok", code |-> 200]}
    \cup {[type |-> "http", code |-> c] : c \in HttpCodes}
    \cup {[type |-> t, code |-> 0] : t \in {"url_error", "timeout", "bad_json"}}

\* the body of the for loop for the response resp of attempt k of n
OnResponse(resp, k, n) ==
    CASE resp.type = "ok" -> "return"
      [] resp.type = "http" ->
            IF resp.code \in AuthCodes THEN "raise"
            ELSE IF resp.code \in RetryableCodes /\ k < n THEN "retry"
            ELSE "raise"
      [] resp.type = "url_error" -> IF k < n THEN "retry" ELSE "raise"
      [] OTHER -> "raise"

retryOthers == <<envVars, houseVars, senateVars, callVars, mainVars, runVars,
                 saveVars>>

\* one iteration of for attempt in range(1, max_retries + 1)
HttpAttempt ==
    /\ rpc = "attempt"
    /\ attempt <= max_retries
    /\ \E resp \in Responses :
        LET act == OnResponse(resp, attempt, max_retries) IN
        /\ responses' = Append(responses, resp)
        /\ IF act = "retry"
           THEN /\ naps' = Append(naps, attempt)   \* time.sleep(1.0 * attempt)
                /\ attempt' = attempt + 1
                /\ rpc' = "attempt"
           ELSE /\ rpc' = IF act = "return" THEN "returned" ELSE "raised"
                /\ UNCHANGED <<naps, attempt>>
    /\ UNCHANGED max_retries
    /\ UNCHANGED retryOthers

\* the loop ends without an iteration having returned or raised (this
\* happens for max_retries = 0 only): the function returns None
HttpFallThrough ==
    /\ rpc = "attempt"
    /\ attempt > max_retries
    /\ rpc' = "returned"
    /\ UNCHANGED <<attempt, max_retries, responses, naps>>
    /\ UNCHANGED retryOthers

InitRetry ==
    /\ gen = 1
    /\ files = EmptyFiles
    /\ result = None
    /\ target = HouseTarget
    /\ max_probe = MaxProbe
    /\ stop_gap = MaxGap
    /\ hsource = NoHouseSource
    /\ ssource = NoSenateSource
    /\ HouseIdle
    /\ SenateIdle
    /\ MainIdle
    /\ FirstRun
    /\ SaveIdle
    /\ rpc = "attempt" /\ attempt = 1 /\ responses = <<>> /\ naps = <<>>
    /\ max_retries \in 0..MaxRetries

NextRetry ==
    \/ HttpAttempt
    \/ HttpFallThrough

SpecRetry == InitRetry /\ [][NextRetry]_vars

TransportError(resp) == resp.type \in {"url_error", "timeout"}

\* C8: the retry policy of http_json for max_retries >= 1.
\* (a) a status outside {429,500,502,503,504} (401 and 403 among them) is
\*     raised at once: it is the last response and no sleep follows it;
\* (b) a status in {429,500,502,503,504} or a transport error on attempt
\*     k < max_retries is followed by a sleep of k and by attempt k+1;
\* (c) there are never more than max_retries requests;
\* (d) a failure of attempt max_retries is raised;
\* (e) a successful response is returned and is the last one.
C8_RetryPolicy ==
    max_retries >= 1 =>
        /\ Len(responses) <= max_retries
        /\ \A k \in 1..Len(responses) :
            LET resp == responses[k] IN
            /\ (resp.type = "http" /\ resp.code \notin RetryableCodes) =>
                /\ k = Len(responses)
                /\ rpc = "raised"
                /\ Len(naps) = k - 1
            /\ ( /\ \/ resp.type = "http" /\ resp.code \in RetryableCodes
                    \/ TransportError(resp)
                 /\ k < max_retries ) =>
                /\ Len(naps) >= k
                /\ naps[k] = k
                /\ Len(responses) > k \/ (rpc = "attempt" /\ attempt = k + 1)
            /\ (resp.type # "ok" /\ k = max_retries) => rpc = "raised"
            /\ resp.type = "ok" =>
                /\ k = Len(responses)
                /\ rpc = "returned"

----------------------------------------------------------------------------
(* SpecRerun: collection of one target run twice over the same storage     *)

CollectEnded ==
    \/ hpc \in {"returned", "raised"}
    \/ spc \in {"returned", "raised"}

\* The second run starts when the first has ended.  The source is the same
\* one (same answers, same documents) or another one (gen 2: any answers,
\* other documents).  Storage is left as the first run left it.
Rerun ==
    /\ run = 1
    /\ CollectEnded
    /\ run' = 2
    /\ files1' = files
    /\ returned1' = CollectReturned
    /\ written' = {}
    /\ result' = None
    /\ \/ /\ same' = TRUE
          /\ UNCHANGED <<hsource, ssource, gen>>
       \/ /\ same' = FALSE
          /\ gen' = 2
          /\ IF IsHouse
             THEN hsource' \in HouseSources(max_probe) /\ ssource' = ssource
             ELSE ssource' \in SmallSenateSources /\ hsource' = hsource
    /\ IF IsHouse
       THEN /\ hpc' = "loop" /\ roll' = 1 /\ misses' = 0 /\ found' = <<>>
            /\ probes' = <<>> /\ sleeps' = {}
            /\ UNCHANGED senateVars
       ELSE /\ spc' = "menu" /\ rows' = <<>> /\ wstate' = <<>>
            /\ UNCHANGED <<hpc, roll, misses, found, probes, sleeps>>
    /\ UNCHANGED <<files, max_probe, stop_gap, target, mainVars, saveVars,
                   retryVars>>

InitRerun ==
    /\ gen = 1
    /\ files = EmptyFiles
    /\ result = None
    /\ target \in {HouseTarget, SenateTarget}
    /\ IF target.chamber = "house"
       THEN /\ max_probe \in 1..SmallProbe
            /\ stop_gap \in 1..SmallProbe
            /\ hsource \in HouseSources(max_probe)
            /\ ssource = NoSenateSource
            /\ HouseEntry
            /\ SenateIdle
       ELSE /\ max_probe = SmallProbe
            /\ stop_gap = SmallProbe
            /\ hsource = NoHouseSource
            /\ ssource \in SmallSenateSources
            /\ HouseIdle
            /\ SenateEntry
    /\ FirstRun
    /\ MainIdle
    /\ SaveIdle
    /\ RetryIdle

NextRerun ==
    \/ Collect
    \/ Rerun

SpecRerun == InitRerun /\ [][NextRerun]_vars

----------------------------------------------------------------------------
(* Properties of two runs (SpecRerun) *)

SecondRunReturned == run = 2 /\ CollectReturned

\* the list the run in progress computed: found, or the menu's rows
ListOfRun == IF IsHouse THEN found ELSE rows

\* C9 as claimed: after the second run of a target, storage holds for that
\* target exactly what the second run produced; no detail document that only
\* the first run wrote remains.
C9_RerunLeavesNothingOld ==
    SecondRunReturned =>
        /\ files[ListPath(target)] = ListOfRun
        /\ \A r \in AllRolls :
            DetailPath(target, r) \in DOMAIN files =>
                DetailPath(target, r) \in written

\* C9 as amended: after the second run of a target has returned, the list
\* file is the list the second run computed, every detail document the
\* second run wrote holds the second run's document, and every detail
\* document the second run did not write (its roll is no longer listed or
\* found, or its fetch, parse or write failed) is exactly as the first run
\* left it: nothing is deleted.
C9_RerunReplacesSameKeys ==
    SecondRunReturned =>
        /\ ListPath(target) \in written
        /\ files[ListPath(target)] = ListOfRun
        /\ \A r \in AllRolls :
            LET path == DetailPath(target, r) IN
            IF path \in written
            THEN files[path] = Detail(target, r, gen)
            ELSE Snapshot(files, path) = Snapshot(files1, path)

\* the second run, against a changed source, replaced one document of the
\* first run and left another one, whose roll it no longer lists, in place
C9_Witness ==
    /\ SecondRunReturned
    /\ gen = 2
    /\ \E r1, r2 \in AllRolls :
        /\ DetailPath(target, r1) \in written
        /\ DetailPath(target, r1) \in DOMAIN files1
        /\ files1[DetailPath(target, r1)] # files[DetailPath(target, r1)]
        /\ DetailPath(target, r2) \in (DOMAIN files) \ written
        /\ r2 \notin Rollcalls(files[ListPath(target)])

\* C10: idempotence.  When both runs of a target returned and the source
\* gave the same answers in both, the list file after the second run equals
\* the list file after the first, whichever detail writes failed in either
\* run and in whichever order the pool's workers finished.
C10_SameSourceSameList ==
    (SecondRunReturned /\ returned1 /\ same) =>
        files[ListPath(target)] = files1[ListPath(target)]

\* two returned runs against one source that differ in the detail documents
\* they managed to write, with a list of two entries
C10_Witness ==
    /\ SecondRunReturned
    /\ returned1
    /\ same
    /\ Len(files[ListPath(target)]) >= 2
    /\ \E r \in AllRolls :
        /\ DetailPath(target, r) \in DOMAIN files1
        /\ DetailPath(target, r) \notin written

====
